---------------------------- MODULE Spec2Model ----------------------------
(***************************************************************************)
(* A model of omniscript.py: the three-stage image pipeline                *)
(*   run_image_pipeline = crop_and_downsize_for_share ; run_grid_maker ;   *)
(*                        rename_for_forge                                 *)
(* over a project directory holding Print, Share, Forge and the grid files *)
(* of the project root.                                                    *)
(*                                                                         *)
(* File names are sequences of characters (one string per character; the   *)
(* right single quotation mark U+2019 is written "rsquo").  An image file  *)
(* is a record [kind, w, h, px]: kind "image" for a decodable raster of    *)
(* w x h pixels whose pixel data derive from px, kind "corrupt" for an     *)
(* entry PIL cannot open (undecodable bytes, a directory, ...).            *)
(***************************************************************************)
EXTENDS Integers, Sequences, FiniteSets, TLC

VARIABLES
    print_folder,      \* [exists, files]: <project>/Print
    share_folder,      \* [exists, files]: <project>/Share
    forge_folder,      \* [exists, files]: <project>/Forge
    project_files,     \* grid files of the project root: page number -> grid image
    grid_rows, grid_cols, spacing, downscale_factor,   \* the entry point's parameters
    pc,                \* position of the pipeline
    run,               \* 1 for the first run of the pipeline, 2 for the run after it
    log,               \* stage-level lines printed by the current run
    listing,           \* entries of os.listdir still to be visited by the current loop
    crop_result,       \* per Print entry visited by the Cropper: what happened to it
    image_files,       \* run_grid_maker: the sorted, filtered list
    source_size,       \* run_grid_maker: <<source_width, source_height>>
    grid_index,        \* run_grid_maker: the loop variable
    copied,            \* rename_for_forge: names copied so far by this call, in order
    failure,           \* the exception that ended the run, if any
    stage_start,       \* Share and Forge as they were when the current loop began
    first_run,         \* Share and Forge as the first run left them
    at_start           \* Share and Forge as the current run found them

vars == << print_folder, share_folder, forge_folder, project_files,
           grid_rows, grid_cols, spacing, downscale_factor,
           pc, run, log, listing, crop_result, image_files, source_size,
           grid_index, copied, failure, stage_start, first_run, at_start >>

---------------------------------------------------------------------------
(* Strings                                                                 *)

RSQUO == "rsquo"

\* Unicode code points of the characters the model's names use; Python
\* compares and sorts str by code point.
CodePoint(c) ==
    CASE c = " " -> 32  [] c = "'" -> 39  [] c = "." -> 46  [] c = "0" -> 48
      [] c = "1" -> 49  [] c = "2" -> 50  [] c = "3" -> 51  [] c = "4" -> 52
      [] c = "5" -> 53  [] c = "6" -> 54  [] c = "7" -> 55  [] c = "8" -> 56
      [] c = "9" -> 57  [] c = "B" -> 66  [] c = "E" -> 69  [] c = "G" -> 71
      [] c = "J" -> 74  [] c = "M" -> 77  [] c = "N" -> 78  [] c = "P" -> 80
      [] c = "_" -> 95  [] c = "a" -> 97  [] c = "b" -> 98  [] c = "c" -> 99
      [] c = "d" -> 100  [] c = "e" -> 101  [] c = "f" -> 102  [] c = "g" -> 103
      [] c = "i" -> 105  [] c = "j" -> 106  [] c = "l" -> 108  [] c = "m" -> 109
      [] c = "n" -> 110  [] c = "o" -> 111  [] c = "p" -> 112  [] c = "r" -> 114
      [] c = "t" -> 116  [] c = "u" -> 117  [] c = "x" -> 120  [] c = RSQUO -> 8217

\* str.lower() on one character.
LowerChar(c) ==
    CASE c = "B" -> "b" [] c = "E" -> "e" [] c = "G" -> "g" [] c = "J" -> "j"
      [] c = "M" -> "m" [] c = "N" -> "n" [] c = "P" -> "p" [] c = "S" -> "s"
      [] OTHER -> c

Lower(s) == [i \in 1..Len(s) |-> LowerChar(s[i])]

EndsWith(s, suffix) ==
    /\ Len(s) >= Len(suffix)
    /\ SubSeq(s, Len(s) - Len(suffix) + 1, Len(s)) = suffix

EndsWithAny(s, suffixes) == \E x \in suffixes : EndsWith(s, x)

EXT_PNG  == <<".", "p", "n", "g">>
EXT_JPG  == <<".", "j", "p", "g">>
EXT_JPEG == <<".", "j", "p", "e", "g">>
EXT_BMP  == <<".", "b", "m", "p">>
EXT_GIF  == <<".", "g", "i", "f">>
EXT_TIFF == <<".", "t", "i", "f", "f">>

\* The three stages' extension filters.
CropperExtensions == {EXT_PNG, EXT_JPG, EXT_JPEG, EXT_BMP, EXT_TIFF}
valid_extensions  == {EXT_PNG, EXT_JPG, EXT_JPEG, EXT_BMP, EXT_GIF, EXT_TIFF}
ForgeExtensions   == {EXT_PNG, EXT_JPG, EXT_JPEG}

CropperAccepts(filename) == EndsWithAny(Lower(filename), CropperExtensions)
GridAccepts(f)           == EndsWithAny(Lower(f), valid_extensions)
ForgeAcceptsCropperSet(file_name) == EndsWithAny(Lower(file_name), CropperExtensions)
ForgeAccepts(file_name)  == EndsWithAny(Lower(file_name), ForgeExtensions)

\* os.path.splitext on a name without directory separators: the extension
\* starts at the last dot, unless only dots precede that dot (then the name
\* has no extension).  Returns <<root, ext>>.
splitext(p) ==
    LET dots     == {i \in 1..Len(p) : p[i] = "."}
        dotIndex == IF dots = {} THEN 0
                    ELSE CHOOSE i \in dots : \A j \in dots : j <= i
    IN  IF dotIndex > 0 /\ \E i \in 1..(dotIndex - 1) : p[i] # "."
        THEN << SubSeq(p, 1, dotIndex - 1), SubSeq(p, dotIndex, Len(p)) >>
        ELSE << p, <<>> >>

\* A variant of StripChars that reaches into the letters.
StripCharsAndLetters ==
    {"0", "1", "2", "3", "4", "5", "6", "7", "8", "9", "_", " ", "a", "b", "c"}

StripChars == {"0", "1", "2", "3", "4", "5", "6", "7", "8", "9", "_", " "}

\* A variant of lstrip that removes one leading character at most.
lstrip_once(s, chars) ==
    IF s # <<>> /\ Head(s) \in chars THEN Tail(s) ELSE s

\* str.lstrip(chars): drop characters from the left while they are in chars.
RECURSIVE lstrip(_, _)
lstrip(s, chars) ==
    IF s # <<>> /\ Head(s) \in chars THEN lstrip(Tail(s), chars) ELSE s

\* str.replace(old, new) for a one-character old.
replace(s, old, new) == [i \in 1..Len(s) |-> IF s[i] = old THEN new ELSE s[i]]

FULLBORDER == <<".", "f", "u", "l", "l", "b", "o", "r", "d", "e", "r", ".", "j", "p", "g">>

\* The exported name of a Share entry.
new_file_name(file_name) ==
    LET base_name     == splitext(file_name)[1]
        stripped_name == lstrip(base_name, StripChars)
    IN  replace(stripped_name, RSQUO, "'") \o FULLBORDER


\* Python's order on str: lexicographic by code point, a proper prefix first.
RECURSIVE StrLess(_, _)
StrLess(a, b) ==
    IF b = <<>> THEN FALSE
    ELSE IF a = <<>> THEN TRUE
    ELSE IF Head(a) = Head(b) THEN StrLess(Tail(a), Tail(b))
    ELSE CodePoint(Head(a)) < CodePoint(Head(b))

\* sorted(...) of a directory listing (its names are pairwise distinct).
RECURSIVE sorted(_)
sorted(names) ==
    IF names = {} THEN <<>>
    ELSE LET least == CHOOSE a \in names : \A b \in names \ {a} : StrLess(a, b)
         IN  <<least>> \o sorted(names \ {least})

\* The orders in which os.listdir may enumerate a directory: every
\* arrangement of its entries.
RECURSIVE listdir(_)
listdir(names) ==
    IF names = {} THEN {<<>>}
    ELSE UNION { { <<a>> \o rest : rest \in listdir(names \ {a}) } : a \in names }

---------------------------------------------------------------------------
(* Files and directories                                                   *)

NoFiles == [n \in {} |-> 0]

MissingDir == [exists |-> FALSE, files |-> NoFiles]

Dir(files) == [exists |-> TRUE, files |-> files]

\* dir with `name` (over)written with `content`.
WriteFile(dir, name, content) ==
    [dir EXCEPT !.files =
        [n \in (DOMAIN dir.files) \cup {name} |->
            IF n = name THEN content ELSE dir.files[n]]]

\* A variant of isdir that takes every directory to be there.
isdir_unchecked(dir) == TRUE

\* os.path.isdir(path)
isdir(dir) == dir.exists

\* os.makedirs(path, exist_ok=True)
makedirs(dir) == [dir EXCEPT !.exists = TRUE]

\* px is a sequence of strings naming where the bytes come from.
Picture(w, h, px) == [kind |-> "image", w |-> w, h |-> h, px |-> px]

Corrupt(px) == [kind |-> "corrupt", w |-> 0, h |-> 0, px |-> px]

---------------------------------------------------------------------------
(* crop_and_downsize_for_share: the arithmetic                             *)

REF_WIDTH   == 2187
REF_HEIGHT  == 2975
CROP_WIDTH  == 2010
CROP_HEIGHT == 2814
REL_TOL_INV == 1000

Abs(x) == IF x < 0 THEN 0 - x ELSE x

Max(x, y) == IF x >= y THEN x ELSE y

\* A variant of aspect_ratio_ok whose tolerance is relative to the expected
\* ratio alone: |a - b| <= rel_tol * b.
aspect_ratio_ok_of_expected(img_width, img_height) ==
    Abs(img_width * REF_HEIGHT - REF_WIDTH * img_height)
        <= (REF_WIDTH * img_height) \div REL_TOL_INV

\* math.isclose(img_width / img_height, 2187 / 2975, rel_tol=1e-3), i.e.
\* |a - b| <= rel_tol * max(|a|, |b|).  Both sides are multiplied by
\* img_height * 2975, which makes them integers D and M / 1000, and
\* D <= M / 1000 is D <= M \div 1000 for integers.
aspect_ratio_ok(img_width, img_height) ==
    Abs(img_width * REF_HEIGHT - REF_WIDTH * img_height)
        <= Max(img_width * REF_HEIGHT, REF_WIDTH * img_height) \div REL_TOL_INV

\* int(img_width * CROP_WIDTH_RATIO): the double product truncated.  For the
\* widths of this model it equals the exact floor of img_width*2010/2187.
target_width(img_width) == (img_width * CROP_WIDTH) \div REF_WIDTH

\* int(img_height * CROP_HEIGHT_RATIO)
target_height(img_height) == (img_height * CROP_HEIGHT) \div REF_HEIGHT

\* crop_box = (left, top, right, bottom)
crop_box(img_width, img_height) ==
    LET left == (img_width - target_width(img_width)) \div 2
        top  == (img_height - target_height(img_height)) \div 2
    IN  << left, top, left + target_width(img_width), top + target_height(img_height) >>

\* The size of img.crop(box) followed by the // downscale_factor of both sides.
new_size(box, k) == << (box[3] - box[1]) \div k, (box[4] - box[2]) \div k >>

\* The bytes the Cropper reads for `filename`.
input_image(filename) == print_folder.files[filename]

\* What the try block does with one opened entry: the log line it ends with,
\* the crop box if one was computed, and the image saved if one was.
\* Image.open raises on an undecodable entry; Image.resize raises on a size
\* with a zero side; both land in `except Exception`.
process_image(filename, k) ==
    LET img == input_image(filename)
        box == crop_box(img.w, img.h)
        sz  == new_size(box, k)
        no  == << 0, 0, 0, 0 >>
    IN  IF img.kind # "image"
        THEN [status |-> "error", box |-> no, saved |-> FALSE, out |-> img]
        ELSE IF ~ aspect_ratio_ok(img.w, img.h)
        THEN [status |-> "skipped", box |-> no, saved |-> FALSE, out |-> img]
        ELSE IF sz[1] < 1 \/ sz[2] < 1
        THEN [status |-> "error", box |-> box, saved |-> FALSE, out |-> img]
        ELSE [status |-> "processed", box |-> box, saved |-> TRUE,
              out |-> Picture(sz[1], sz[2], <<"cropped">> \o img.px)]

---------------------------------------------------------------------------
(* run_image_pipeline                                                      *)

Snapshot == [share |-> share_folder, forge |-> forge_folder]

\* Lines 26-35: the start banner and the banner of step 1.
StartPipeline ==
    /\ pc = "start"
    /\ log' = << "STARTING IMAGE PIPELINE", "Starting Step 1" >>
    /\ pc' = "crop_check"
    /\ UNCHANGED << print_folder, share_folder, forge_folder, project_files,
                    grid_rows, grid_cols, spacing, downscale_factor, run, listing,
                    crop_result, image_files, source_size, grid_index, copied,
                    failure, stage_start, first_run, at_start >>

\* Lines 41-44: back from step 1, the orchestrator goes on to step 2.
AfterStep1(lines) == log \o lines \o << "Step 1 Finished", "Starting Step 2" >>

\* Lines 53-56: back from step 2, the orchestrator goes on to step 3.
AfterStep2(lines) == log \o lines \o << "Step 2 Finished", "Starting Step 3" >>

\* Lines 61-67: back from step 3, the orchestrator reports the duration.
AfterStep3(lines) ==
    log \o lines \o << "Step 3 Finished", "PIPELINE FINISHED", "Total execution time" >>

---------------------------------------------------------------------------
(* crop_and_downsize_for_share                                             *)

\* Lines 77-79: the input folder is missing.
CropMissingInput ==
    /\ pc = "crop_check"
    /\ ~ isdir(print_folder)
    /\ log' = AfterStep1(<< "Error: Input folder for cropping not found" >>)
    /\ pc' = "grid_check"
    /\ UNCHANGED << print_folder, share_folder, forge_folder, project_files,
                    grid_rows, grid_cols, spacing, downscale_factor, run, listing,
                    crop_result, image_files, source_size, grid_index, copied,
                    failure, stage_start, first_run, at_start >>

\* Lines 81-93: create the output folder and list the input folder.
CropListInput ==
    /\ pc = "crop_check"
    /\ isdir(print_folder)
    /\ share_folder' = makedirs(share_folder)
    /\ listing' \in listdir(DOMAIN print_folder.files)
    /\ crop_result' = NoFiles
    /\ pc' = "crop_loop"
    /\ stage_start' = [share |-> share_folder', forge |-> forge_folder]
    /\ UNCHANGED << print_folder, forge_folder, project_files,
                    grid_rows, grid_cols, spacing, downscale_factor, run, log,
                    image_files, source_size, grid_index, copied, failure, first_run, at_start >>

\* A variant of crop_continue in which an exception ends the loop.
crop_stop_on_error(result) ==
    [pc |-> "crop_loop",
     listing |-> IF result.status = "error" THEN <<>> ELSE Tail(listing)]

\* Where the Cropper goes after the entry at the head of the listing, whose
\* try block ended as `result`: on to the next entry, also after an exception.
crop_continue(result) == [pc |-> "crop_loop", listing |-> Tail(listing)]

\* Lines 93-130: one iteration of the loop over the listing.
CropFile ==
    /\ pc = "crop_loop"
    /\ listing # <<>>
    /\ LET filename == Head(listing)
           result   == process_image(filename, downscale_factor)
           next     == crop_continue(result)
       IN  IF CropperAccepts(filename)
           THEN /\ share_folder' = IF result.saved
                                   THEN WriteFile(share_folder, filename, result.out)
                                   ELSE share_folder
                /\ crop_result' = [n \in (DOMAIN crop_result) \cup {filename} |->
                                      IF n = filename
                                      THEN [status |-> result.status, box |-> result.box]
                                      ELSE crop_result[n]]
                /\ pc' = next.pc
                /\ listing' = next.listing
           ELSE /\ UNCHANGED << share_folder, crop_result, pc >>
                /\ listing' = Tail(listing)
    /\ UNCHANGED << print_folder, forge_folder, project_files,
                    grid_rows, grid_cols, spacing, downscale_factor, run, log,
                    image_files, source_size, grid_index, copied, failure,
                    stage_start, first_run, at_start >>

\* The loop of lines 93-130 is over: the stage returns.
CropReturn ==
    /\ pc = "crop_loop"
    /\ listing = <<>>
    /\ log' = AfterStep1(<< "Scanning for images" >>)
    /\ pc' = "grid_check"
    /\ UNCHANGED << print_folder, share_folder, forge_folder, project_files,
                    grid_rows, grid_cols, spacing, downscale_factor, run, listing,
                    crop_result, image_files, source_size, grid_index, copied,
                    failure, stage_start, first_run, at_start >>

---------------------------------------------------------------------------
(* run_grid_maker                                                          *)

NoFailure == [what |-> "none", snapshot |-> [share |-> MissingDir, forge |-> MissingDir],
              pending |-> <<>>]

\* An exception nothing catches: it ends run_image_pipeline where it stands.
Raised(what) == [what |-> what, snapshot |-> Snapshot, pending |-> listing]

Min(x, y) == IF x <= y THEN x ELSE y

images_per_grid == grid_rows * grid_cols

\* A variant of num_grids that rounds down: the last, partial page is lost.
num_grids_floor(n, per_grid) == n \div per_grid

\* math.ceil(len(image_files) / images_per_grid)
num_grids(n, per_grid) == (n + per_grid - 1) \div per_grid

\* image_files[start_index:end_index]
grid_image_files(files, index, per_grid) ==
    SubSeq(files, index * per_grid + 1, Min((index + 1) * per_grid, Len(files)))

\* A variant of paste_position that fills the grid column by column.
paste_position_by_column(i, filename, cols, source_width, source_height, spacer_pixels) ==
    LET row == i % cols
        col == i \div cols
    IN  [file |-> filename, row |-> row, col |-> col,
         paste_x |-> (col * source_width) + (spacer_pixels * (col + 1)),
         paste_y |-> (row * source_height) + (spacer_pixels * (row + 1))]

\* Lines 174-177 for the i-th (0-based) image of a page.
paste_position(i, filename, cols, source_width, source_height, spacer_pixels) ==
    LET row == i \div cols
        col == i % cols
    IN  [file |-> filename, row |-> row, col |-> col,
         paste_x |-> (col * source_width) + (spacer_pixels * (col + 1)),
         paste_y |-> (row * source_height) + (spacer_pixels * (row + 1))]

\* Lines 164-183: the canvas of one page.  An image that cannot be opened
\* raises IOError in the inner try and is skipped.
grid_image(index) ==
    LET page   == grid_image_files(image_files, index, images_per_grid)
        places == [i \in 1..Len(page) |->
                      paste_position(i - 1, page[i], grid_cols,
                                     source_size[1], source_size[2], spacing)]
        opens(place) == share_folder.files[place.file].kind = "image"
    IN  [total_width  |-> (source_size[1] * grid_cols) + (spacing * (grid_cols + 1)),
         total_height |-> (source_size[2] * grid_rows) + (spacing * (grid_rows + 1)),
         pastes       |-> SelectSeq(places, opens)]

\* Lines 137-139: the source folder is missing.
GridMissingSource ==
    /\ pc = "grid_check"
    /\ ~ isdir(share_folder)
    /\ log' = AfterStep2(<< "Error: Source folder for grid maker not found" >>)
    /\ pc' = "forge_check"
    /\ UNCHANGED << print_folder, share_folder, forge_folder, project_files,
                    grid_rows, grid_cols, spacing, downscale_factor, run, listing,
                    crop_result, image_files, source_size, grid_index, copied,
                    failure, stage_start, first_run, at_start >>

\* Lines 141-150: the sorted list of accepted entries is empty.
GridNoImages ==
    /\ pc = "grid_check"
    /\ isdir(share_folder)
    /\ { f \in DOMAIN share_folder.files : GridAccepts(f) } = {}
    /\ image_files' = <<>>
    /\ log' = AfterStep2(<< "No images found" >>)
    /\ pc' = "forge_check"
    /\ UNCHANGED << print_folder, share_folder, forge_folder, project_files,
                    grid_rows, grid_cols, spacing, downscale_factor, run, listing,
                    crop_result, source_size, grid_index, copied,
                    failure, stage_start, first_run, at_start >>

\* Where run_grid_maker goes when the first sorted image cannot be opened:
\* line 158 stands outside every try, so the exception leaves the pipeline.
first_image_unreadable == [pc |-> "crashed", failure |-> Raised("open first image")]

\* Lines 141-160: sort the accepted entries and read the first one's size.
GridOpenFirst ==
    /\ pc = "grid_check"
    /\ isdir(share_folder)
    /\ LET files == sorted({ f \in DOMAIN share_folder.files : GridAccepts(f) })
       IN  /\ files # <<>>
           /\ image_files' = files
           /\ LET img == share_folder.files[files[1]]
              IN  IF img.kind = "image"
                  THEN /\ source_size' = << img.w, img.h >>
                       /\ grid_index' = 0
                       /\ pc' = "grid_loop"
                       /\ log' = log \o << "Found images", "Using source image dimensions" >>
                       /\ UNCHANGED failure
                  ELSE /\ pc' = first_image_unreadable.pc
                       /\ failure' = first_image_unreadable.failure
                       /\ log' = log \o << "Found images" >>
                       /\ UNCHANGED << source_size, grid_index >>
    /\ UNCHANGED << print_folder, share_folder, forge_folder, project_files,
                    grid_rows, grid_cols, spacing, downscale_factor, run, listing,
                    crop_result, copied, stage_start, first_run, at_start >>

\* Lines 162-192: one page; grid_image.save may raise IOError, which is
\* logged (`saved` is FALSE) and leaves the page's file as it was.
GridPage ==
    /\ pc = "grid_loop"
    /\ grid_index < num_grids(Len(image_files), images_per_grid)
    /\ \E saved \in BOOLEAN :
          /\ project_files' =
                IF saved
                THEN [n \in (DOMAIN project_files) \cup {grid_index + 1} |->
                         IF n = grid_index + 1 THEN grid_image(grid_index)
                         ELSE project_files[n]]
                ELSE project_files
          /\ log' = log \o << IF saved THEN "Success! Grid saved"
                                        ELSE "Error: Could not save the final image" >>
    /\ grid_index' = grid_index + 1
    /\ UNCHANGED << print_folder, share_folder, forge_folder,
                    grid_rows, grid_cols, spacing, downscale_factor, pc, run,
                    listing, crop_result, image_files, source_size, copied,
                    failure, stage_start, first_run, at_start >>

\* The loop of lines 162-192 is over: the stage returns.
GridReturn ==
    /\ pc = "grid_loop"
    /\ grid_index >= num_grids(Len(image_files), images_per_grid)
    /\ log' = AfterStep2(<< >>)
    /\ pc' = "forge_check"
    /\ UNCHANGED << print_folder, share_folder, forge_folder, project_files,
                    grid_rows, grid_cols, spacing, downscale_factor, run, listing,
                    crop_result, image_files, source_size, grid_index, copied,
                    failure, stage_start, first_run, at_start >>

---------------------------------------------------------------------------
(* rename_for_forge                                                        *)

\* Lines 199-201: the source folder is missing.
ForgeMissingSource ==
    /\ pc = "forge_check"
    /\ ~ isdir(share_folder)
    /\ log' = AfterStep3(<< "Error: Source folder for Forge prep not found" >>)
    /\ pc' = "done"
    /\ UNCHANGED << print_folder, share_folder, forge_folder, project_files,
                    grid_rows, grid_cols, spacing, downscale_factor, run, listing,
                    crop_result, image_files, source_size, grid_index, copied,
                    failure, stage_start, first_run, at_start >>

\* Lines 203-206: create the destination folder and list the source folder.
ForgeListSource ==
    /\ pc = "forge_check"
    /\ isdir(share_folder)
    /\ forge_folder' = makedirs(forge_folder)
    /\ listing' \in listdir(DOMAIN share_folder.files)
    /\ copied' = <<>>
    /\ stage_start' = [share |-> share_folder, forge |-> forge_folder']
    /\ pc' = "forge_loop"
    /\ log' = log \o << "Copying and renaming files for Forge" >>
    /\ UNCHANGED << print_folder, share_folder, project_files,
                    grid_rows, grid_cols, spacing, downscale_factor, run,
                    crop_result, image_files, source_size, grid_index,
                    failure, first_run, at_start >>

\* Lines 206-208: an entry the extension filter rejects.
ForgeSkip ==
    /\ pc = "forge_loop"
    /\ listing # <<>>
    /\ ~ ForgeAccepts(Head(listing))
    /\ listing' = Tail(listing)
    /\ UNCHANGED << print_folder, share_folder, forge_folder, project_files,
                    grid_rows, grid_cols, spacing, downscale_factor, pc, run, log,
                    crop_result, image_files, source_size, grid_index, copied,
                    failure, stage_start, first_run, at_start >>

\* Share after shutil.copy2 has read `file_name`: a copy leaves its source.
copy_source(file_name) == share_folder

\* Lines 208-222: shutil.copy2 of one accepted entry under its new name.
ForgeCopy ==
    /\ pc = "forge_loop"
    /\ listing # <<>>
    /\ ForgeAccepts(Head(listing))
    /\ LET file_name == Head(listing)
       IN  /\ forge_folder' = WriteFile(forge_folder, new_file_name(file_name),
                                        share_folder.files[file_name])
           /\ share_folder' = copy_source(file_name)
           /\ copied' = Append(copied, file_name)
    /\ listing' = Tail(listing)
    /\ UNCHANGED << print_folder, project_files,
                    grid_rows, grid_cols, spacing, downscale_factor, pc, run, log,
                    crop_result, image_files, source_size, grid_index,
                    failure, stage_start, first_run, at_start >>

\* A variant of copy_raises in which the failing entry is skipped.
copy_raises_and_continues == [pc |-> "forge_loop", listing |-> Tail(listing)]

\* Where rename_for_forge goes when shutil.copy2 raises: nothing catches the
\* exception, so it leaves the loop, the stage and the pipeline.
copy_raises == [pc |-> "crashed", listing |-> listing]

\* Line 221 raises (unreadable source, unwritable destination, full disk).
ForgeCopyFails ==
    /\ pc = "forge_loop"
    /\ listing # <<>>
    /\ ForgeAccepts(Head(listing))
    /\ failure' = Raised("copy")
    /\ pc' = copy_raises.pc
    /\ listing' = copy_raises.listing
    /\ UNCHANGED << print_folder, share_folder, forge_folder, project_files,
                    grid_rows, grid_cols, spacing, downscale_factor, run, log,
                    crop_result, image_files, source_size, grid_index, copied,
                    stage_start, first_run, at_start >>

\* The loop of lines 206-222 is over: the stage and the pipeline return.
ForgeReturn ==
    /\ pc = "forge_loop"
    /\ listing = <<>>
    /\ log' = AfterStep3(<< >>)
    /\ pc' = "done"
    /\ UNCHANGED << print_folder, share_folder, forge_folder, project_files,
                    grid_rows, grid_cols, spacing, downscale_factor, run, listing,
                    crop_result, image_files, source_size, grid_index, copied,
                    failure, stage_start, first_run, at_start >>

\* The operator runs the pipeline again on the project as the first run left it.
RunAgain ==
    /\ pc = "done"
    /\ run = 1
    /\ run' = 2
    /\ first_run' = Snapshot
    /\ pc' = "start"
    /\ log' = <<>>
    /\ listing' = <<>>
    /\ crop_result' = NoFiles
    /\ image_files' = <<>>
    /\ source_size' = << 0, 0 >>
    /\ grid_index' = 0
    /\ copied' = <<>>
    /\ at_start' = Snapshot
    /\ UNCHANGED << print_folder, share_folder, forge_folder, project_files,
                    grid_rows, grid_cols, spacing, downscale_factor,
                    failure, stage_start >>

---------------------------------------------------------------------------
(* Initial states                                                          *)

\* The entry point's defaults (line 10; the example usage sets the same).
GRID_ROWS        == 4
GRID_COLS        == 4
SPACING_PIXELS   == 0
DOWNSCALE_FACTOR == 3

MaxPrintFiles == 3
MaxStaleFiles == 1

\* The subsets of `names` with at most `most` members.
UpTo(names, most) == { S \in SUBSET names : Cardinality(S) <= most }

PrintNames ==
    { <<"1", "a", ".", "j", "p", "g">>,  <<"2", "a", ".", "j", "p", "g">>,
      <<"c", ".", "P", "N", "G">>,       <<"b", ".", "B", "M", "P">>,
      <<"n", ".", "t", "x", "t">> }

\* Entries a project's Share may hold before the pipeline runs.
StaleNames ==
    { <<"0", ".", "g", "i", "f">>,  <<"2", "a", ".", "j", "p", "g">> }

\* A Print entry: a card scan of the reference size, a picture of another
\* shape, or an entry that is no picture.
PrintEntry(name, kind) ==
    CASE kind = "card"  -> Picture(REF_WIDTH, REF_HEIGHT, <<"print">> \o name)
      [] kind = "other" -> Picture(REF_HEIGHT, REF_WIDTH, <<"print">> \o name)
      [] kind = "junk"  -> Corrupt(<<"print">> \o name)

StaleEntry(name, kind) ==
    CASE kind = "card"  -> Picture(CROP_WIDTH \div DOWNSCALE_FACTOR,
                                   CROP_HEIGHT \div DOWNSCALE_FACTOR, <<"stale">> \o name)
      [] kind = "junk"  -> Corrupt(<<"stale">> \o name)

PrintFolders ==
    {MissingDir} \cup
    UNION { { Dir([n \in S |-> PrintEntry(n, kinds[n])]) :
                kinds \in [S -> {"card", "other", "junk"}] } :
            S \in UpTo(PrintNames, MaxPrintFiles) }

ShareFolders ==
    {MissingDir} \cup
    UNION { { Dir([n \in S |-> StaleEntry(n, kinds[n])]) :
                kinds \in [S -> {"card", "junk"}] } :
            S \in UpTo(StaleNames, MaxStaleFiles) }

\* The locals and bookkeeping of a run that stands at `at`.
Fresh(at) ==
    /\ pc = at
    /\ run = 1
    /\ log = <<>>
    /\ listing = <<>>
    /\ crop_result = NoFiles
    /\ image_files = <<>>
    /\ source_size = << 0, 0 >>
    /\ grid_index = 0
    /\ copied = <<>>
    /\ failure = NoFailure
    /\ stage_start = [share |-> MissingDir, forge |-> MissingDir]
    /\ first_run = [share |-> MissingDir, forge |-> MissingDir]
    /\ at_start = Snapshot

Init ==
    /\ print_folder \in PrintFolders
    /\ share_folder \in ShareFolders
    /\ forge_folder = MissingDir
    /\ project_files = NoFiles
    /\ grid_rows = GRID_ROWS
    /\ grid_cols = GRID_COLS
    /\ spacing = SPACING_PIXELS
    /\ downscale_factor = DOWNSCALE_FACTOR
    /\ Fresh("start")

Next ==
    \/ StartPipeline
    \/ CropMissingInput \/ CropListInput \/ CropFile \/ CropReturn
    \/ GridMissingSource \/ GridNoImages \/ GridOpenFirst \/ GridPage \/ GridReturn
    \/ ForgeMissingSource \/ ForgeListSource \/ ForgeSkip \/ ForgeCopy
    \/ ForgeCopyFails \/ ForgeReturn
    \/ RunAgain

Spec == Init /\ [][Next]_vars

---------------------------------------------------------------------------
(* The naming rule of Rename/Export as the specification words it          *)

\* The name, letters lowercased, ends in a dot followed by png, jpg or jpeg.
ExportExtension(name) ==
    \E e \in { <<"p", "n", "g">>, <<"j", "p", "g">>, <<"j", "p", "e", "g">> } :
        /\ Len(name) > Len(e)
        /\ name[Len(name) - Len(e)] = "."
        /\ \A i \in 1..Len(e) : LowerChar(name[Len(name) - Len(e) + i]) = e[i]

\* The part of the name before its last dot.
BeforeExtension(name) ==
    LET last == CHOOSE i \in 1..Len(name) :
                    /\ name[i] = "."
                    /\ \A j \in (i + 1)..Len(name) : name[j] # "."
    IN  SubSeq(name, 1, last - 1)

\* s without its longest prefix of ASCII digits, underscores and spaces.
WithoutNumberPrefix(s) ==
    LET class == {"0", "1", "2", "3", "4", "5", "6", "7", "8", "9", "_", " "}
        k == CHOOSE i \in 0..Len(s) :
                 /\ \A j \in 1..i : s[j] \in class
                 /\ i < Len(s) => s[i + 1] \notin class
    IN  SubSeq(s, k + 1, Len(s))

\* base with every right single quotation mark turned into an apostrophe,
\* followed by ".fullborder.jpg".
Normalised(base) ==
    [i \in 1..Len(base) |-> IF base[i] = RSQUO THEN "'" ELSE base[i]]
        \o <<".", "f", "u", "l", "l", "b", "o", "r", "d", "e", "r", ".", "j", "p", "g">>

\* The exported name the specification gives a name with an export extension.
ExportedName(name) == Normalised(WithoutNumberPrefix(BeforeExtension(name)))

\* Nothing but dots (or nothing at all) stands before the extension.
OnlyDotsBeforeExtension(name) ==
    \A i \in 1..Len(BeforeExtension(name)) : BeforeExtension(name)[i] = "."

\* The exported name with that case set right: such a name is kept whole.
ExportedNameAmended(name) ==
    IF OnlyDotsBeforeExtension(name)
    THEN Normalised(WithoutNumberPrefix(name))
    ELSE ExportedName(name)

\* The entries of Share that Rename/Export is to export.
Exportable == { n \in DOMAIN share_folder.files : ExportExtension(n) }

\* No two exportable entries of Share normalise to the same exported name.
NoCollision ==
    \A a, b \in Exportable :
        ExportedNameAmended(a) = ExportedNameAmended(b) => a = b

---------------------------------------------------------------------------
(* Claims about the whole pipeline (specification Spec)                    *)

Occurs(line, lines) == \E i \in 1..Len(lines) : lines[i] = line

IsStageBanner(line) ==
    line \in { "Starting Step 1", "Starting Step 2", "Starting Step 3" }

MissingPrintLog ==
    << "STARTING IMAGE PIPELINE", "Starting Step 1",
       "Error: Input folder for cropping not found",
       "Step 1 Finished", "Starting Step 2",
       "Error: Source folder for grid maker not found",
       "Step 2 Finished", "Starting Step 3",
       "Error: Source folder for Forge prep not found",
       "Step 3 Finished", "PIPELINE FINISHED", "Total execution time" >>

\* What C3 promises of a run that finds no Print directory.
MissingPrintOutcome ==
    /\ share_folder = at_start.share
    /\ crop_result = NoFiles
    /\ project_files = NoFiles
    /\ forge_folder.files = NoFiles
    /\ pc # "crashed"
    /\ pc = "done" => log = MissingPrintLog
    /\ pc = "done" \/ ENABLED Next

\* C3 as stated: whenever the Print directory does not exist, whatever else
\* the project holds, stage 1 logs its error and creates nothing in Share,
\* stages 2 and 3 log their own missing-directory error and write no grid
\* file and no Forge file, and the run reaches its duration report.
C3_MissingPrint == (~ print_folder.exists) => MissingPrintOutcome

\* C3 amended: the same, for a project that holds neither Print nor Share
\* when the run starts.
C3_MissingPrintAndShare ==
    (~ print_folder.exists /\ ~ at_start.share.exists) => MissingPrintOutcome

C3_Witness ==
    /\ ~ print_folder.exists
    /\ ~ at_start.share.exists
    /\ pc = "done"
    /\ log = MissingPrintLog

\* C4: the stages start in the order 1, 2, 3; a run that ends by an
\* exception ends inside stage 3, never because of a failure inside stage 1
\* or stage 2; a run that ends normally has started all three stages and
\* reported the duration.
C4_EveryStageRuns ==
    /\ \E n \in 0..3 :
          SelectSeq(log, IsStageBanner)
              = SubSeq(<< "Starting Step 1", "Starting Step 2", "Starting Step 3" >>, 1, n)
    /\ pc = "crashed" => Occurs("Starting Step 3", log)
    /\ pc = "done" => /\ Len(SelectSeq(log, IsStageBanner)) = 3
                      /\ log[Len(log)] = "Total execution time"

OneExportEach ==
    /\ \A s \in Exportable :
          /\ ExportedNameAmended(s) \in DOMAIN forge_folder.files
          /\ forge_folder.files[ExportedNameAmended(s)] = share_folder.files[s]
    /\ \A s, t \in Exportable :
          s # t => ExportedNameAmended(s) # ExportedNameAmended(t)
    /\ Cardinality(DOMAIN forge_folder.files) = Cardinality(Exportable)

\* C6 as stated: after Rename/Export every Share entry with extension png,
\* jpg or jpeg has exactly one exported copy in Forge, distinct entries have
\* distinct copies, and the counts agree.
C6_OneExportPerImage ==
    (pc = "done" /\ share_folder.exists) => OneExportEach

\* C6 amended: after Rename/Export, Forge holds exactly one file per distinct
\* exported name of the exportable Share entries, each the copy of an
\* exportable entry with that exported name; and when no two exportable
\* names normalise to the same exported name, C6 holds as stated.
C6_OneExportPerName ==
    (pc = "done" /\ share_folder.exists) =>
        /\ DOMAIN forge_folder.files = { ExportedNameAmended(s) : s \in Exportable }
        /\ \A f \in DOMAIN forge_folder.files :
              \E s \in Exportable :
                  /\ ExportedNameAmended(s) = f
                  /\ forge_folder.files[f] = share_folder.files[s]
        /\ NoCollision => OneExportEach

C6_Witness ==
    /\ pc = "done"
    /\ share_folder.exists
    /\ NoCollision
    /\ Cardinality(Exportable) >= 2
    /\ \E n \in DOMAIN share_folder.files : ~ ExportExtension(n) /\ GridAccepts(n)

C10_FailedCopyStopsStage ==
    failure.what = "copy" =>
        /\ listing = failure.pending
        /\ forge_folder = failure.snapshot.forge
        /\ share_folder = stage_start.share
        /\ \A i \in 1..Len(copied) :
              /\ new_file_name(copied[i]) \in DOMAIN forge_folder.files
              /\ \E j \in i..Len(copied) :
                    /\ new_file_name(copied[j]) = new_file_name(copied[i])
                    /\ forge_folder.files[new_file_name(copied[i])]
                           = share_folder.files[copied[j]]
        /\ \A f \in DOMAIN forge_folder.files :
              \/ \E i \in 1..Len(copied) : new_file_name(copied[i]) = f
              \/ /\ f \in DOMAIN stage_start.forge.files
                 /\ forge_folder.files[f] = stage_start.forge.files[f]
        /\ \A i \in 1..Len(listing) : \A j \in 1..Len(copied) : listing[i] # copied[j]

C10_Witness ==
    /\ failure.what = "copy"
    /\ copied # <<>>
    /\ \E i \in 2..Len(listing) : ForgeAccepts(listing[i])
    /\ new_file_name(Head(listing)) \notin DOMAIN forge_folder.files

---------------------------------------------------------------------------
(* The Grid Composer alone (specification SpecGrid)                        *)

MaxImages  == 4
MaxRows    == 2
MaxCols    == 2
MaxSpacing == 1

GridNames ==
    { <<"1", "0", ".", "j", "p", "g">>,  <<"2", ".", "j", "p", "g">>,
      <<"B", ".", "g", "i", "f">>,       <<"a", ".", "p", "n", "g">>,
      <<"b", ".", "B", "M", "P">>,       <<"a", ".", "t", "x", "t">> }

ShareEntry(name, kind) ==
    CASE kind = "card" -> Picture(CROP_WIDTH \div DOWNSCALE_FACTOR,
                                  CROP_HEIGHT \div DOWNSCALE_FACTOR, <<"share">> \o name)
      [] kind = "junk" -> Corrupt(<<"share">> \o name)

GridShareFolders ==
    {MissingDir} \cup
    UNION { { Dir([n \in S |-> ShareEntry(n, kinds[n])]) :
                kinds \in [S -> {"card", "junk"}] } :
            S \in UpTo(GridNames, MaxImages) }

InitGrid ==
    /\ print_folder = MissingDir
    /\ share_folder \in GridShareFolders
    /\ forge_folder = MissingDir
    /\ project_files = NoFiles
    /\ grid_rows \in 1..MaxRows
    /\ grid_cols \in 1..MaxCols
    /\ spacing \in 0..MaxSpacing
    /\ downscale_factor = DOWNSCALE_FACTOR
    /\ Fresh("grid_check")

NextGrid ==
    GridMissingSource \/ GridNoImages \/ GridOpenFirst \/ GridPage \/ GridReturn

SpecGrid == InitGrid /\ [][NextGrid]_vars

\* The accepted images of the source directory, and their number n.
GridImages == { f \in DOMAIN share_folder.files : GridAccepts(f) }

\* The image at position k (from 1) of the lexicographically sorted list.
SortedImage(k) ==
    CHOOSE f \in GridImages :
        Cardinality({ g \in GridImages : StrLess(g, f) }) = k - 1

\* ceil(n / p): the least m with m * p >= n.
PagesNeeded(n, p) == CHOOSE m \in 0..n : m * p >= n /\ (m = 0 \/ (m - 1) * p < n)

\* Exactly ceil(n/p) grid files, numbered 1..ceil(n/p); p populated cells on
\* every page but the last, n mod p (p when p divides n) on the last.
PageCountAsClaimed ==
    LET n     == Cardinality(GridImages)
        p     == grid_rows * grid_cols
        pages == PagesNeeded(n, p)
    IN  /\ DOMAIN project_files = 1..pages
        /\ \A N \in 1..(pages - 1) : Len(project_files[N].pastes) = p
        /\ Len(project_files[pages].pastes) = IF n % p = 0 THEN p ELSE n % p

C2_RowMajorPlacement ==
    \A N \in DOMAIN project_files :
        LET n      == Cardinality(GridImages)
            p      == grid_rows * grid_cols
            pastes == project_files[N].pastes
            first  == share_folder.files[SortedImage(1)]
            InSlice(i) == i \in 0..(p - 1) /\ (N - 1) * p + i + 1 <= n
            At(i)  == SortedImage((N - 1) * p + i + 1)
        IN  /\ \A k \in 1..Len(pastes) :
                  \E i \in 0..(p - 1) :
                      /\ InSlice(i)
                      /\ pastes[k].file = At(i)
                      /\ pastes[k].row = i \div grid_cols
                      /\ pastes[k].col = i % grid_cols
                      /\ pastes[k].paste_x =
                             pastes[k].col * first.w + spacing * (pastes[k].col + 1)
                      /\ pastes[k].paste_y =
                             pastes[k].row * first.h + spacing * (pastes[k].row + 1)
            /\ \A i \in 0..(p - 1) :
                  (InSlice(i) /\ share_folder.files[At(i)].kind = "image")
                      => \E k \in 1..Len(pastes) : pastes[k].file = At(i)
            /\ \A k, m \in 1..Len(pastes) :
                  (pastes[k].row = pastes[m].row /\ pastes[k].col = pastes[m].col)
                      => k = m
            /\ \A k \in 1..Len(pastes) :
                  /\ (N = 1 /\ pastes[k].file = SortedImage(1))
                        => (pastes[k].row = 0 /\ pastes[k].col = 0)
                  /\ (N = 1 /\ grid_rows >= 2 /\ n >= grid_cols + 1
                           /\ pastes[k].file = SortedImage(grid_cols + 1))
                        => (pastes[k].row = 1 /\ pastes[k].col = 0)

C2_Witness ==
    /\ grid_rows = 2
    /\ grid_cols = 2
    /\ spacing = 1
    /\ 1 \in DOMAIN project_files
    /\ Len(project_files[1].pastes) = 4
    /\ project_files[1].pastes[1].file = <<"1", "0", ".", "j", "p", "g">>
    /\ project_files[1].pastes[2].file = <<"2", ".", "j", "p", "g">>
    /\ project_files[1].pastes[3].file = <<"B", ".", "g", "i", "f">>
    /\ project_files[1].pastes[3].row = 1
    /\ project_files[1].pastes[3].col = 0
    /\ project_files[1].pastes[3].paste_x = 1
    /\ project_files[1].pastes[3].paste_y = (CROP_HEIGHT \div DOWNSCALE_FACTOR) + 2

---------------------------------------------------------------------------
(* The Cropper alone, on one picture of any size (specification SpecCrop)  *)

MaxSmallWidth  == 40
MaxSmallHeight == 55
WindowLeft     == 1100
WindowTop      == 1496
WindowSpan     == 10
MaxFactor      == 3

\* Small pictures, pictures around the edge of the tolerance, and the
\* reference size and its double.
CropSizes ==
    ((1..MaxSmallWidth) \X (1..MaxSmallHeight))
        \cup ((WindowLeft..(WindowLeft + WindowSpan)) \X (WindowTop..(WindowTop + WindowSpan)))
        \cup { << REF_WIDTH, REF_HEIGHT >>, << 2 * REF_WIDTH, 2 * REF_HEIGHT >> }

ScanName == <<"0", "0", "3", "_", "c", ".", "p", "n", "g">>

InitCrop ==
    /\ \E size \in CropSizes :
          print_folder = Dir([n \in {ScanName} |-> Picture(size[1], size[2], <<"print">> \o n)])
    /\ share_folder = MissingDir
    /\ forge_folder = MissingDir
    /\ project_files = NoFiles
    /\ grid_rows = GRID_ROWS
    /\ grid_cols = GRID_COLS
    /\ spacing = SPACING_PIXELS
    /\ downscale_factor \in 1..MaxFactor
    /\ Fresh("crop_check")

NextCrop == CropListInput \/ CropFile \/ CropReturn

SpecCrop == InitCrop /\ [][NextCrop]_vars

\* |w/h - 2187/2975| / (2187/2975) <= 1/1000, over integers:
\* 1000 * |2975 w - 2187 h| <= 2187 h.
WithinRelativeTolerance(w, h) ==
    LET d == (w * 2975) - (2187 * h)
    IN  (IF d < 0 THEN 0 - d ELSE d) <= (2187 * h) \div 1000

\* |w/h - 2187/2975| <= max(w/h, 2187/2975) / 1000, over integers.
WithinToleranceOfLarger(w, h) ==
    LET d == (w * 2975) - (2187 * h)
    IN  \/ d >= 0 /\ d <= (w * 2975) \div 1000
        \/ d < 0 /\ 0 - d <= (2187 * h) \div 1000

\* The size of the file written and the place of the crop box, as C7 has them.
CropDimensions(f) ==
    LET w   == print_folder.files[f].w
        h   == print_folder.files[f].h
        k   == downscale_factor
        box == crop_result[f].box
    IN  /\ f \in DOMAIN share_folder.files =>
              /\ crop_result[f].status = "processed"
              /\ share_folder.files[f].w = ((w * 2010) \div 2187) \div k
              /\ share_folder.files[f].h = ((h * 2814) \div 2975) \div k
        /\ crop_result[f].status = "processed" =>
              /\ f \in DOMAIN share_folder.files
              /\ 0 <= box[1] /\ box[1] <= box[3] /\ box[3] <= w
              /\ 0 <= box[2] /\ box[2] <= box[4] /\ box[4] <= h

\* C7 as stated: a picture is accepted (not skipped for its aspect ratio)
\* exactly when |w/h - 2187/2975| / (2187/2975) <= 1/1000; the file written
\* for it is floor(floor(w*2010/2187)/k) wide and floor(floor(h*2814/2975)/k)
\* high, and its crop box lies inside the picture.
C7_CropDimensions ==
    \A f \in DOMAIN crop_result :
        /\ crop_result[f].status # "skipped"
              <=> WithinRelativeTolerance(print_folder.files[f].w, print_folder.files[f].h)
        /\ CropDimensions(f)

\* C7 amended: a picture is accepted exactly when
\* |w/h - 2187/2975| <= max(w/h, 2187/2975) / 1000; the rest as stated.
C7_CropDimensionsIsClose ==
    \A f \in DOMAIN crop_result :
        /\ crop_result[f].status # "skipped"
              <=> WithinToleranceOfLarger(print_folder.files[f].w, print_folder.files[f].h)
        /\ CropDimensions(f)

C7_Witness ==
    /\ pc = "grid_check"
    /\ downscale_factor = 3
    /\ ScanName \in DOMAIN share_folder.files
    /\ print_folder.files[ScanName].w = 1106
    /\ print_folder.files[ScanName].h = 1503
    /\ share_folder.files[ScanName].w = 338
    /\ share_folder.files[ScanName].h = 473
    /\ crop_result[ScanName].box = << 45, 41, 1061, 1462 >>

---------------------------------------------------------------------------
(* Rename/Export alone, on one entry of any name (specification SpecRename) *)

MaxBaseLen == 3

RenameAlphabet == { "1", "_", " ", "a", ".", RSQUO }

RenameExtensions ==
    { <<".", "j", "p", "g">>, <<".", "P", "N", "G">>, <<".", "J", "p", "E", "g">>,
      <<".", "b", "m", "p">>, << >> }

\* The example of the specification: 003_Sliver's Mark.jpg, with U+2019.
ExampleName ==
    << "0", "0", "3", "_", "S", "l", "i", "v", "e", "r", RSQUO, "s", " ",
       "M", "a", "r", "k", ".", "j", "p", "g" >>

RenameNames ==
    {ExampleName} \cup
    { base \o ext : base \in UNION { [1..m -> RenameAlphabet] : m \in 0..MaxBaseLen },
                    ext \in RenameExtensions }

InitRename ==
    /\ print_folder = MissingDir
    /\ \E name \in RenameNames \ { << >> } :
          share_folder = Dir([n \in {name} |-> ShareEntry(n, "card")])
    /\ forge_folder = MissingDir
    /\ project_files = NoFiles
    /\ grid_rows = GRID_ROWS
    /\ grid_cols = GRID_COLS
    /\ spacing = SPACING_PIXELS
    /\ downscale_factor = DOWNSCALE_FACTOR
    /\ Fresh("forge_check")

NextRename == ForgeListSource \/ ForgeSkip \/ ForgeCopy \/ ForgeCopyFails \/ ForgeReturn

SpecRename == InitRename /\ [][NextRename]_vars

===========================================================================
